---------------------------- MODULE Spec2Model ----------------------------
(***************************************************************************)
(* A model of src/anova.jsx: the statistical utilities (calculateMean,     *)
(* calculateVariance, calculateStats, getQuartiles), the MetricCard        *)
(* component's use of them, and the App component's state and handlers     *)
(* (handleFileUpload, reader.onload, parseCSV, loadDemoData).              *)
(*                                                                         *)
(* Numbers.  A JavaScript number is modelled as an extended rational:      *)
(*   [k |-> "fin", n |-> numerator, d |-> denominator]  (lowest terms)     *)
(*   [k |-> "inf", n |-> 1 or -1, d |-> 1]              (+-Infinity)       *)
(*   [k |-> "nan", n |-> 0, d |-> 1]                    (NaN)              *)
(* Arithmetic follows IEEE 754 for the special values (x/0, 0/0, Inf-Inf,  *)
(* 0*Inf) and overflows to +-Infinity above MaxDouble, the model's         *)
(* Number.MAX_VALUE.  Rounding and the sign of zero are not modelled:      *)
(* finite results are exact, and the inputs are chosen so that no result   *)
(* falls just above MaxDouble, where IEEE 754 would round down to it.      *)
(* Math.sqrt and Math.pow have no rational value in general: t is kept as  *)
(* its square and p as the interval it lies in (see PowClass).             *)
(***************************************************************************)
EXTENDS Integers, Sequences, FiniteSets, TLC

VARIABLES
    metricsData,   \* App state (useState, line 237): Null or the parsed mapping
    fileName,      \* App state (line 238)
    error,         \* App state (line 239)
    pending,       \* FileReaders whose onload has not fired yet: their results
    csvText,       \* parseCSV: its argument
    i,             \* parseCSV: the loop index of line 272
    parsed,        \* parseCSV: the local mapping of lines 264-270
    ppc,           \* parseCSV: position ("loop", "done")
    call,          \* engine: the function called and its arguments
    ret,           \* engine: what the call returned
    epc            \* engine: "ready" before the call, "done" after

vars == <<metricsData, fileName, error, pending, csvText, i, parsed, ppc, call, ret, epc>>

appVars == <<metricsData, fileName, error, pending>>
parseVars == <<csvText, i, parsed, ppc>>
engineVars == <<call, ret, epc>>

---------------------------------------------------------------------------
(* Bounds of the model *)

\* the model's Number.MAX_VALUE: a finite result above it is Infinity
MaxDouble == 1000000
\* longest sample given to calculateStats and MetricCard
MaxStatLen == 3
\* longest sample given to getQuartiles
MaxQuartLen == 4

---------------------------------------------------------------------------
(* Numbers *)

Abs(x) == IF x < 0 THEN -x ELSE x

RECURSIVE GCD(_, _)
GCD(a, b) == IF b = 0 THEN a ELSE GCD(b, a % b)

NaN == [k |-> "nan", n |-> 0, d |-> 1]
Inf(s) == [k |-> "inf", n |-> s, d |-> 1]

\* the number nn/dd, given in lowest terms with dd > 0: Infinity when it is
\* beyond MaxDouble
Rounded(nn, dd) ==
    IF \/ Abs(nn) \div dd > MaxDouble
       \/ (Abs(nn) \div dd = MaxDouble /\ Abs(nn) % dd # 0)
    THEN Inf(IF nn < 0 THEN -1 ELSE 1)
    ELSE [k |-> "fin", n |-> nn, d |-> dd]

\* n/d with both divided by g, the sign carried by the numerator
Reduced(n, d, g) == Rounded((IF d < 0 THEN -n ELSE n) \div g, Abs(d) \div g)

\* the number n/d (d # 0)
Fin(n, d) == Reduced(n, d, GCD(Abs(n), Abs(d)))

Int2Num(x) == Fin(x, 1)
Zero == Int2Num(0)
One == Int2Num(1)

IsNaN(a) == a.k = "nan"
IsFinite(a) == a.k = "fin"
Sign(a) == IF a.n < 0 THEN -1 ELSE IF a.n > 0 THEN 1 ELSE 0

Neg(a) == [a EXCEPT !.n = -a.n]

\* a + b
Add(a, b) ==
    IF IsNaN(a) \/ IsNaN(b) THEN NaN
    ELSE IF a.k = "inf" /\ b.k = "inf" THEN (IF a.n = b.n THEN a ELSE NaN)
    ELSE IF a.k = "inf" THEN a
    ELSE IF b.k = "inf" THEN b
    ELSE Fin(a.n * b.d + b.n * a.d, a.d * b.d)

\* a - b
Sub(a, b) == Add(a, Neg(b))

\* a * b
Mul(a, b) ==
    IF IsNaN(a) \/ IsNaN(b) THEN NaN
    ELSE IF a.k = "inf" \/ b.k = "inf"
         THEN (IF Sign(a) * Sign(b) = 0 THEN NaN ELSE Inf(Sign(a) * Sign(b)))
    ELSE Fin(a.n * b.n, a.d * b.d)

\* a / b
Div(a, b) ==
    IF IsNaN(a) \/ IsNaN(b) THEN NaN
    ELSE IF a.k = "inf" /\ b.k = "inf" THEN NaN
    ELSE IF a.k = "inf" THEN Inf(IF Sign(b) < 0 THEN -a.n ELSE a.n)
    ELSE IF b.k = "inf" THEN Zero
    ELSE IF b.n = 0 THEN (IF a.n = 0 THEN NaN ELSE Inf(Sign(a)))
    ELSE Fin(a.n * b.d, a.d * b.n)

\* a < b and a <= b (false when either is NaN)
Lt(a, b) ==
    /\ ~IsNaN(a) /\ ~IsNaN(b)
    /\ IF a.k = "inf" THEN a.n < 0 /\ ~(b.k = "inf" /\ b.n < 0)
       ELSE IF b.k = "inf" THEN b.n > 0
       ELSE a.n * b.d < b.n * a.d

Le(a, b) == ~IsNaN(a) /\ ~IsNaN(b) /\ ~Lt(b, a)

\* Math.floor of a finite number
Floor(a) == a.n \div a.d

---------------------------------------------------------------------------
(* Statistical utilities *)

RECURSIVE SumFrom(_, _, _)
\* arr.reduce((a, b) => a + b, acc) from index j on
SumFrom(arr, j, acc) ==
    IF j > Len(arr) THEN acc ELSE SumFrom(arr, j + 1, Add(acc, arr[j]))

calculateMean(arr) == Div(SumFrom(arr, 1, Zero), Int2Num(Len(arr)))

RECURSIVE SumSqFrom(_, _, _, _)
\* arr.reduce((a, b) => a + Math.pow(b - mean, 2), acc) from index j on
SumSqFrom(arr, mean, j, acc) ==
    IF j > Len(arr) THEN acc
    ELSE SumSqFrom(arr, mean, j + 1,
                   Add(acc, Mul(Sub(arr[j], mean), Sub(arr[j], mean))))

calculateVariance(arr, mean) ==
    Div(SumSqFrom(arr, mean, 1, Zero), Int2Num(Len(arr) - 1))


\* The value of Math.pow(base, expo) for a base >= 0, as the interval it lies in:
\* "nan", "zero", "open01" (strictly between 0 and 1), "one", "gt1" (finite,
\* above 1) or "inf".  calculateStats only raises 1 + t*t/df, which is >= 1 or NaN.
PowClass(base, expo) ==
    IF IsNaN(expo) THEN "nan"
    ELSE IF Sign(expo) = 0 THEN "one"
    ELSE IF IsNaN(base) THEN "nan"
    ELSE IF Sign(base) < 0 THEN "other"
    ELSE IF Sign(base) = 0 THEN (IF Sign(expo) > 0 THEN "zero" ELSE "inf")
    ELSE IF base.k = "inf" THEN (IF Sign(expo) > 0 THEN "inf" ELSE "zero")
    ELSE IF base = One THEN (IF expo.k = "inf" THEN "nan" ELSE "one")
    ELSE IF Lt(base, One)
         THEN (IF Sign(expo) > 0
               THEN (IF expo.k = "inf" THEN "zero" ELSE "open01")
               ELSE (IF expo.k = "inf" THEN "inf" ELSE "gt1"))
    ELSE (IF Sign(expo) > 0
          THEN (IF expo.k = "inf" THEN "inf" ELSE "gt1")
          ELSE (IF expo.k = "inf" THEN "zero" ELSE "open01"))

\* 1 / x for x given as an interval of PowClass
RecipClass(c) ==
    CASE c = "nan" -> "nan"
      [] c = "zero" -> "inf"
      [] c = "open01" -> "gt1"
      [] c = "one" -> "one"
      [] c = "gt1" -> "open01"
      [] c = "inf" -> "zero"
      [] OTHER -> "other"

\* Math.abs(diff / Math.sqrt(x)), a number >= 0 (or NaN), given by its square:
\* diff*diff/x for x > 0; Infinity for x = 0 and diff # 0; NaN for 0/0 and x < 0
AbsQuotientBySqrt(diff, x) ==
    IF IsNaN(x) \/ Sign(x) < 0 THEN [sqrtOf |-> NaN]
    ELSE [sqrtOf |-> Div(Mul(diff, diff), x)]

\* (v1 / n1) + (v2 / n2): the square of se, and the root of df's numerator
SeSquared(n1, n2, v1, v2) == Add(Div(v1, Int2Num(n1)), Div(v2, Int2Num(n2)))

\* the local df of calculateStats (Welch-Satterthwaite); it is not returned
WelchDf(n1, n2, v1, v2) ==
    Div(Mul(SeSquared(n1, n2, v1, v2), SeSquared(n1, n2, v1, v2)),
        Add(Div(Mul(Div(v1, Int2Num(n1)), Div(v1, Int2Num(n1))), Int2Num(n1 - 1)),
            Div(Mul(Div(v2, Int2Num(n2)), Div(v2, Int2Num(n2))), Int2Num(n2 - 1))))

\* const p = 1 / Math.pow(1 + (t * t) / df, (df + 1) / 2), t given by its square
PValue(tSquared, df) ==
    RecipClass(PowClass(Add(One, Div(tSquared, df)), Div(Add(df, One), Int2Num(2))))

\* lines 49-54 of calculateStats: p, and the record returned
StatsReturn(t, df, m1, m2) ==
    [t |-> t, p |-> PValue(t.sqrtOf, df), m1 |-> m1, m2 |-> m2]

\* lines 40-45 of calculateStats: se, t and df from the means and variances
StatsOfMoments(n1, n2, m1, m2, v1, v2) ==
    StatsReturn(AbsQuotientBySqrt(Sub(m1, m2), SeSquared(n1, n2, v1, v2)),
                WelchDf(n1, n2, v1, v2), m1, m2)

\* lines 37-38 of calculateStats: the variances from the means
StatsOfMeans(group1, group2, m1, m2) ==
    StatsOfMoments(Len(group1), Len(group2), m1, m2,
                   calculateVariance(group1, m1), calculateVariance(group2, m2))

\* a slip: the early return taken only when both samples are short
calculateStatsBothShort(group1, group2) ==
    IF Len(group1) < 2 /\ Len(group2) < 2 THEN [p |-> "one", t |-> [sqrtOf |-> Zero]]
    ELSE StatsOfMeans(group1, group2, calculateMean(group1), calculateMean(group2))

\* calculateStats: the record it returns.  t is given by its square (sqrtOf),
\* p by the interval it lies in.
calculateStats(group1, group2) ==
    IF Len(group1) < 2 \/ Len(group2) < 2 THEN [p |-> "one", t |-> [sqrtOf |-> Zero]]
    ELSE StatsOfMeans(group1, group2, calculateMean(group1), calculateMean(group2))

\* the helper calls calculateStats makes, in order
StatsHelperCalls(group1, group2) ==
    IF Len(group1) < 2 \/ Len(group2) < 2 THEN <<>>
    ELSE <<"calculateMean", "calculateMean", "calculateVariance", "calculateVariance">>

---------------------------------------------------------------------------
(* Quartiles *)

\* the comparator (a, b) => a - b
CompareFn(a, b) == Sub(a, b)

\* s (sorted) with x put after every element that does not compare above it
InsertAt(s, x, k) == SubSeq(s, 1, k) \o <<x>> \o SubSeq(s, k + 1, Len(s))

InsertSorted(s, x) ==
    InsertAt(s, x, Cardinality({j \in 1..Len(s) : ~Lt(Zero, CompareFn(s[j], x))}))

RECURSIVE SortFrom(_, _, _)
SortFrom(arr, j, acc) ==
    IF j > Len(arr) THEN acc ELSE SortFrom(arr, j + 1, InsertSorted(acc, arr[j]))

\* [...data].sort((a, b) => a - b): the sorted copy, and data after the call
SpreadSort(data) == [sorted |-> SortFrom(data, 1, <<>>), source |-> data]

\* the return of getValue: between sorted[base] and its successor when there
\* is one (the array sorted is 0-indexed in the source, 1-indexed here)
Interpolated(sorted, base, rest) ==
    IF base + 1 < Len(sorted)
    THEN Add(sorted[base + 1], Mul(rest, Sub(sorted[base + 2], sorted[base + 1])))
    ELSE sorted[base + 1]

\* a slip: the value at the floor of the position, without interpolation
getValueAtFloor(sorted, pos) == sorted[Floor(pos) + 1]

\* getValue(pos) of getQuartiles
getValue(sorted, pos) ==
    Interpolated(sorted, Floor(pos), Sub(pos, Int2Num(Floor(pos))))

\* lines 60-80 of getQuartiles, on the sorted copy
QuartilesOfSorted(sorted) ==
    [min |-> sorted[1],
     q1 |-> getValue(sorted, Mul(Int2Num(Len(sorted) - 1), Fin(1, 4))),
     median |-> getValue(sorted, Mul(Int2Num(Len(sorted) - 1), Fin(1, 2))),
     q3 |-> getValue(sorted, Mul(Int2Num(Len(sorted) - 1), Fin(3, 4))),
     max |-> sorted[Len(sorted)]]

getQuartiles(data) ==
    IF Len(data) = 0
    THEN [min |-> Zero, q1 |-> Zero, median |-> Zero, q3 |-> Zero, max |-> Zero]
    ELSE QuartilesOfSorted(SpreadSort(data).sorted)

\* the caller's array after getQuartiles(data) returned
DataAfterGetQuartiles(data) ==
    IF Len(data) = 0 THEN data ELSE SpreadSort(data).source

---------------------------------------------------------------------------
(* MetricCard *)

\* what MetricCard renders from stats, q1 and q2 (lines 167-233): "TypeError"
\* when toFixed is read of an undefined stats.m1 or stats.m2 (lines 184, 189)
CardOf(stats, q1, q2) ==
    IF "m1" \notin DOMAIN stats \/ "m2" \notin DOMAIN stats
    THEN [outcome |-> "TypeError"]
    ELSE [outcome |-> "card", stats |-> stats, q1 |-> q1, q2 |-> q2]

\* MetricCard({data}): "null" when nothing is rendered for want of data
MetricCard(data) ==
    IF Len(data.group1) = 0 \/ Len(data.group2) = 0 THEN [outcome |-> "null"]
    ELSE CardOf(calculateStats(data.group1, data.group2),
                getQuartiles(data.group1), getQuartiles(data.group2))

---------------------------------------------------------------------------
(* The engine called on bounded inputs: each behaviour draws one call in its
   initial state and makes it. *)

SeqsUpTo(S, n) == UNION {[1..m -> S] : m \in 0..n}

\* sample values for calculateStats and MetricCard
StatValues == {Int2Num(1), Int2Num(2), Int2Num(3)}
\* a number of large magnitude: Huge and its sums with the small values are
\* finite, Huge + Huge is not (as 1e308 is to Number.MAX_VALUE)
Huge == 3 * (MaxDouble \div 4)
\* sample values for getQuartiles
QuartValues == {Int2Num(1), Int2Num(2), Int2Num(3), Int2Num(4),
                Int2Num(Huge), Int2Num(-Huge)}

StatSamples == SeqsUpTo(StatValues, MaxStatLen)
QuartSamples == SeqsUpTo(QuartValues, MaxQuartLen)

EngineCalls ==
    {[fn |-> f, args |-> <<a, b>>] :
        f \in {"calculateStats", "MetricCard"}, a \in StatSamples, b \in StatSamples}
    \cup {[fn |-> "getQuartiles", args |-> <<a>>] : a \in QuartSamples}

NoCall == [fn |-> "none", args |-> <<>>]
NoReturn == [returned |-> FALSE]

CallCalculateStats ==
    /\ epc = "ready"
    /\ call.fn = "calculateStats"
    /\ ret' = [returned |-> TRUE,
               value |-> calculateStats(call.args[1], call.args[2]),
               helperCalls |-> StatsHelperCalls(call.args[1], call.args[2])]
    /\ epc' = "done"
    /\ UNCHANGED <<call, appVars, parseVars>>

CallGetQuartiles ==
    /\ epc = "ready"
    /\ call.fn = "getQuartiles"
    /\ ret' = [returned |-> TRUE, value |-> getQuartiles(call.args[1])]
    /\ call' = [call EXCEPT !.args = <<DataAfterGetQuartiles(call.args[1])>>]
    /\ epc' = "done"
    /\ UNCHANGED <<appVars, parseVars>>

CallMetricCard ==
    /\ epc = "ready"
    /\ call.fn = "MetricCard"
    /\ ret' = [returned |-> TRUE,
               value |-> MetricCard([group1 |-> call.args[1], group2 |-> call.args[2]])]
    /\ epc' = "done"
    /\ UNCHANGED <<call, appVars, parseVars>>

---------------------------------------------------------------------------
(* Text.  A string is the sequence of its characters. *)

NL == "\n"

\* the positions of the separator sep in s
SepPositions(s, sep) == {j \in 1..Len(s) : s[j] = sep}

\* String.prototype.split(sep) for a one-character separator: the pieces
\* between the separators, one more than there are separators
\* the k-th separator position of seps, 0 before the first and Len(s) + 1 after
\* the last
NthSep(s, seps, k) ==
    IF k = 0 THEN 0
    ELSE IF k > Cardinality(seps) THEN Len(s) + 1
    ELSE CHOOSE p \in seps : Cardinality({r \in seps : r < p}) = k - 1

SplitAt(s, seps) ==
    [k \in 1..(Cardinality(seps) + 1) |->
        SubSeq(s, NthSep(s, seps, k - 1) + 1, NthSep(s, seps, k) - 1)]

Split(s, sep) == SplitAt(s, SepPositions(s, sep))

Digits == <<"0", "1", "2", "3", "4", "5", "6", "7", "8", "9">>
IsDigit(c) == \E k \in 1..Len(Digits) : Digits[k] = c
DigitVal(c) == (CHOOSE k \in 1..Len(Digits) : Digits[k] = c) - 1
WhiteSpace == {" ", "\t", "\r", "\n"}

\* the first position from j on that holds no character of the set cs
RECURSIVE SkipWhile(_, _, _)
SkipWhile(s, j, cs) ==
    IF j <= Len(s) /\ s[j] \in cs THEN SkipWhile(s, j + 1, cs) ELSE j

RECURSIVE DigitsEnd(_, _)
DigitsEnd(s, j) == IF j <= Len(s) /\ IsDigit(s[j]) THEN DigitsEnd(s, j + 1) ELSE j

\* the value of the decimal digits s[a..b] (0 when there are none)
RECURSIVE DigitsValue(_, _, _)
DigitsValue(s, a, b) ==
    IF a > b THEN 0 ELSE 10 * DigitsValue(s, a, b - 1) + DigitVal(s[b])

RECURSIVE Pow10(_)
Pow10(k) == IF k = 0 THEN 1 ELSE 10 * Pow10(k - 1)

\* ToString(undefined), what parseFloat sees for a column the row does not have
UndefinedString == <<"u", "n", "d", "e", "f", "i", "n", "e", "d">>
InfinityString == <<"I", "n", "f", "i", "n", "i", "t", "y">>

\* mant * 10^expo
Scaled(mant, expo) ==
    IF expo >= 0 THEN Mul(mant, Int2Num(Pow10(expo)))
    ELSE Div(mant, Int2Num(Pow10(-expo)))

\* the exponent part of a literal whose mantissa ends before position e2, the
\* digits of the exponent being str[x1..x2-1] when the part is there
ExponentAt(str, e2, x1, x2) ==
    IF e2 <= Len(str) /\ str[e2] \in {"e", "E"} /\ x2 > x1
    THEN (IF str[x1 - 1] = "-" THEN -1 ELSE 1) * DigitsValue(str, x1, x2 - 1)
    ELSE 0

\* where the digits of an exponent start, if one starts at e2
ExponentDigitsAt(str, e2) ==
    IF e2 + 1 <= Len(str) /\ str[e2 + 1] \in {"+", "-"} THEN e2 + 2 ELSE e2 + 1

\* the literal with integer digits str[b..e1-1] and, after a dot at e1,
\* fraction digits str[e1+1..e2-1] (e2 = e1 when there is no dot)
DecimalAt(str, sgn, b, e1, e2) ==
    IF (e1 - b) + (IF e2 > e1 THEN e2 - e1 - 1 ELSE 0) = 0 THEN NaN
    ELSE Scaled(Fin(sgn * (DigitsValue(str, b, e1 - 1) * Pow10(e2 - e1 - (IF e2 > e1 THEN 1 ELSE 0))
                           + DigitsValue(str, e1 + 1, e2 - 1)),
                    Pow10(e2 - e1 - (IF e2 > e1 THEN 1 ELSE 0))),
                ExponentAt(str, e2, ExponentDigitsAt(str, e2),
                           DigitsEnd(str, ExponentDigitsAt(str, e2))))

\* the literal whose integer digits are str[b..e1-1]
MantissaAt(str, sgn, b, e1) ==
    DecimalAt(str, sgn, b, e1,
              IF e1 <= Len(str) /\ str[e1] = "." THEN DigitsEnd(str, e1 + 1) ELSE e1)

\* the literal that starts at position b, after the sign
UnsignedAt(str, sgn, b) ==
    IF b + 7 <= Len(str) /\ SubSeq(str, b, b + 7) = InfinityString THEN Inf(sgn)
    ELSE MantissaAt(str, sgn, b, DigitsEnd(str, b))

\* the literal that starts at position a, after the white space
SignedAt(str, a) ==
    UnsignedAt(str,
               IF a <= Len(str) /\ str[a] = "-" THEN -1 ELSE 1,
               IF a <= Len(str) /\ str[a] \in {"+", "-"} THEN a + 1 ELSE a)

\* parseFloat(str): leading white space is skipped, then the longest prefix
\* that is a decimal literal ([+-] digits [. digits] [e [+-] digits], or
\* [+-] Infinity) is the value; NaN when there is none
parseFloat(str) == SignedAt(str, SkipWhile(str, 1, WhiteSpace))

---------------------------------------------------------------------------
(* parseCSV *)

MetricNames == {"Ball Size", "Ball Thickness", "Loop Height", "Edge Height", "BPT"}

\* the value null of parseVal
NullVal == [k |-> "null", n |-> 0, d |-> 1]

\* the local parsed of parseCSV as declared (lines 264-270)
EmptyParsed ==
    [m \in MetricNames |->
        [group1 |-> <<>>, group2 |-> <<>>, unit |-> IF m = "BPT" THEN "g" ELSE "um"]]

\* isNaN(num) ? null : num
NullIfNaN(num) == IF IsNaN(num) THEN NullVal ELSE num

parseVal(val) == NullIfNaN(parseFloat(val))

\* row[idx] of the 0-indexed array row: undefined beyond its end
RowAt(row, idx) == IF idx + 1 <= Len(row) THEN row[idx + 1] ELSE UndefinedString

\* addData(metric, idx1, idx2) on the row, from the mapping acc
\* a slip: a metric whose first column did not parse is given up
PushBothOrNone(acc, metric, v1, v2) ==
    IF v1 = NullVal THEN acc
    ELSE [acc EXCEPT
            ![metric].group1 = Append(@, v1),
            ![metric].group2 = IF v2 # NullVal THEN Append(@, v2) ELSE @]

\* the two pushes of addData
PushBoth(acc, metric, v1, v2) ==
    [acc EXCEPT
        ![metric].group1 = IF v1 # NullVal THEN Append(@, v1) ELSE @,
        ![metric].group2 = IF v2 # NullVal THEN Append(@, v2) ELSE @]

addData(acc, row, metric, idx1, idx2) ==
    PushBoth(acc, metric, parseVal(RowAt(row, idx1)), parseVal(RowAt(row, idx2)))

\* the body of the loop of parseCSV (lines 273-292) on one line of the text
\* a slip: rows of 9 fields are let through
RowIntoFromNine(acc, row) ==
    IF Len(row) < 9 THEN acc
    ELSE addData(addData(addData(addData(addData(acc,
             row, "Ball Size", 1, 2),
             row, "Ball Thickness", 3, 4),
             row, "Loop Height", 5, 6),
             row, "Edge Height", 7, 8),
             row, "BPT", 10, 11)

\* lines 274-292: the row, split, read into the mapping acc
RowInto(acc, row) ==
    IF Len(row) < 10 THEN acc
    ELSE addData(addData(addData(addData(addData(acc,
             row, "Ball Size", 1, 2),
             row, "Ball Thickness", 3, 4),
             row, "Loop Height", 5, 6),
             row, "Edge Height", 7, 8),
             row, "BPT", 10, 11)

ParseRow(acc, line) == RowInto(acc, Split(line, ","))

\* a slip: the first data row is skipped too
FirstDataLineLate == 5 + 1

\* the index the loop of parseCSV starts at: the first 5 lines are skipped
FirstDataLine == 5

\* the loop of parseCSV from index j (0-indexed) on; each iteration's mapping
\* is bound (next) before the loop goes on with it
RECURSIVE ParseLoop(_, _, _)
ParseLoop(lines, j, acc) ==
    IF j < Len(lines)
    THEN CHOOSE r \in {ParseLoop(lines, j + 1, next) :
                          next \in {ParseRow(acc, lines[j + 1])}} : TRUE
    ELSE acc

\* What parseCSV is called with: a string, or a value that is no string (the
\* result of a reader that read nothing), on which csvText.split throws.
TextOf(chars) == [isString |-> TRUE, chars |-> chars]
NotText == [isString |-> FALSE, chars |-> <<>>]

\* parseCSV(content): whether it threw, and the mapping it built
parseCSV(content) ==
    IF ~content.isString THEN [threw |-> TRUE, parsed |-> EmptyParsed]
    ELSE [threw |-> FALSE,
          parsed |-> ParseLoop(Split(content.chars, NL), FirstDataLine, EmptyParsed)]

---------------------------------------------------------------------------
(* The App component: its state and handlers *)

Null == "null"
NullData == [null |-> TRUE]
ErrorMessage == "Failed to parse CSV. Please check the format."
DemoFileName == "Demo Data (Loaded)"

\* most FileReaders in flight at once
MaxPending == 2
\* most data rows of an uploaded text
MaxUploadRows == 1
\* most data rows of a text whose parse is followed row by row
MaxRows == 2

\* the five lines above the data rows; the last is shaped like a data row
Preamble == <<"a", NL, "b", NL, "c", NL, NL, ",", "7", ",", "7", ",", "7", ",", "7", ",", "7", ",", "7", ",", "7", ",", "7", ",", ",", "7", ",", "7">>

RECURSIVE AppendLines(_, _)
\* text followed by each line of rows on a line of its own
AppendLines(text, rows) ==
    IF rows = <<>> THEN text
    ELSE AppendLines(text \o <<NL>> \o Head(rows), Tail(rows))

\* data rows of uploads: the row of the documentation, a row of 6 fields, and
\* the first with column 2 empty
UploadLines ==
    { <<",", "4", "2", ",", "4", "3", ",", "9", ",", "8", ",", "4", "6", ",", "4", "4", ",", "4", "1", ",", "4", "1", ",", ",", "4", ".", "3", "0", "9", ",", "4", ".", "4", "3", "3">>,
      <<"1", ",", "2", ",", "3", ",", "4", ",", "5", ",", "6">>,
      <<",", "4", "2", ",", ",", "9", ",", "8", ",", "4", "6", ",", "4", "4", ",", "4", "1", ",", "4", "1", ",", ",", "4", ".", "3", ",", "4", ".", "4">> }

UploadContents ==
    {TextOf(AppendLines(Preamble, rows)) : rows \in SeqsUpTo(UploadLines, MaxUploadRows)}
    \cup {NotText}

Files == {[name |-> "upload.csv", content |-> c] : c \in UploadContents}

\* the template literal of loadDemoData (lines 300-322), character by character;
\* NL is the line break, written \n in the first line and literally after it
dummyCSV ==
    <<>>
    \o NL \o <<>>
    \o NL \o <<>>
    \o NL \o <<>>
    \o NL \o <<"M","o","d","e","l",",","I","C","O","N","N"," ","P","L","U","S",",","R","A","P","I","D",",","I","C","O","N","N"," ","P","L","U","S",",","R","A","P","I","D",",","I","C","O","N","N"," ","P","L","U","S",",","R","A","P","I","D",",","I","C","O","N","N"," ","P","L","U","S",",","R","A","P","I","D",",",",","I","C","O","N","N"," ","P","L","U","S",",","R","A","P","I","D">>
    \o NL \o <<" "," "," "," "," ","R","A","P","I","D",",","4","2",",","4","3",",","9",",","8",",","4","6",",","4","4",",","4","1",",","4","1",",",",","4",".","3","0","9",",","4",".","4","3","3">>
    \o NL \o <<" "," "," "," "," ",",","4","2",",","4","3",",","1","0",",","9",",","4","7",",","4","6",",","4","0",",","4","0",",",",","4",".","2","6","8",",","4",".","5","8","4">>
    \o NL \o <<" "," "," "," "," ",",","4","3",",","4","2",",","1","0",",","1","0",",","4","5",",","4","8",",","3","9",",","3","9",",",",","4",".","3","6","8",",","4",".","2","5","6">>
    \o NL \o <<" "," "," "," "," ",",","4","2",",","4","2",",","1","0",",","9",",","4","8",",","4","9",",","4","5",",","4","4",",",",","4",".","5","0","2",",","4",".","4","8","8">>
    \o NL \o <<" "," "," "," "," ",",","4","3",",","4","1",",","9",",","9",",","4","7",",","5","0",",","4","5",",","4","5",",",",","4",".","3","3","4",",","4",".","5","7","4">>
    \o NL \o <<" "," "," "," "," ",",","4","2",",","4","1",",","9",",","1","0",",","4","7",",","4","6",",","4","5",",","4","4",",",",","4",".","1","5","7",",","4",".","5","2","7">>
    \o NL \o <<" "," "," "," "," ",",","4","1",",","4","3",",","9",",","9",",","5","2",",","4","7",",","4","3",",","4","3",",",",","4",".","3","6","8",",","4",".","3","4","2">>
    \o NL \o <<" "," "," "," "," ",",","4","2",",","4","1",",","1","0",",","9",",","4","8",",","4","8",",","4","6",",","4","4",",",",","4",".","3","8","3",",","4",".","5","6","3">>
    \o NL \o <<" "," "," "," "," ",",","4","2",",","4","2",",","9",",","8",",","4","5",",","4","5",",","4","5",",","4","4",",",",","4",".","4","6","5",",","4",".","2","7">>
    \o NL \o <<" "," "," "," "," ",",","4","3",",","4","3",",","9",",","8",",","4","6",",","4","5",",","4","5",",","4","2",",",",","4",".","4","1","8",",","4",".","4","3","6">>
    \o NL \o <<" "," "," "," "," ",",","4","3",",","4","1",",","9",",","1","0",",","5","2",",","5","1",",","4","3",",","4","2",",",",","4",".","5","6",",","4",".","5","4","9">>
    \o NL \o <<" "," "," "," "," ",",","4","2",",","4","2",",","9",",","9",",","5","3",",","5","0",",","4","5",",","4","2",",",",","4",".","3","7","6",",","4",".","3","8","2">>
    \o NL \o <<" "," "," "," "," ",",","4","2",",","4","2",",","1","0",",","9",",","4","7",",","4","9",",","4","2",",","4","3",",",",","4",".","5","6","4",",","4",".","3","0","4">>
    \o NL \o <<" "," "," "," "," ",",","4","2",",","4","2",",","9",",","1","0",",","4","8",",","4","8",",","4","5",",","4","4",",",",","4",".","5","2","9",",","4",".","1","7","8">>
    \o NL \o <<" "," "," "," "," ",",","4","1",",","4","1",",","9",",","8",",","4","6",",","5","1",",","4","5",",","4","4",",",",","4",".","2","5",",","4",".","2","9","3">>
    \o NL \o <<" "," "," "," "," ",",","4","2",",","4","1",",","9",",","8",",","4","7",",","5","0",",","4","3",",","4","2",",",",","4",".","3","0","6",",","4",".","2","7","6">>
    \o NL \o <<" "," "," "," "," ",",","4","3",",","4","3",",","1","0",",","9",",","5","1",",","4","7",",","4","3",",","4","3",",",",","4",".","4","9","3",",","4",".","6","2">>
    \o NL \o <<" "," "," "," "," ",",","4","2",",","4","3",",","9",",","1","0",",","5","2",",","4","6",",","4","6",",","4","2",",",",","4",".","1","6","3",",","4",".","6","1">>
    \o NL \o <<" "," "," "," "," ",",","4","2",",","4","3",",","9",",","9",",","5","3",",","4","5",",","4","4",",","4","2",",",",","4",".","3","4","6",",","4",".","3","5">>
    \o NL \o <<" "," "," "," "," ",",","4","2",",","4","1",",","9",",","8",",","5","2",",","4","6",",","4","4",",","4","4",",",",","4",".","1","5","1",",","4",".","5","7","6">>
    \o NL \o <<" "," "," "," "," ",",","4","2",",","4","3",",","9",",","1","0",",","5","0",",","4","7",",","4","4",",","4","5",",",",","4",".","5","3","7",",","4",".","1","5","8">>
    \o NL \o <<" "," "," "," "," ",",","4","2",",","4","3",",","9",",","1","0",",","4","8",",","4","7",",","4","4",",","4","5",",",",","4",".","5","9","8",",","4",".","4","0","6">>

\* The state left by reader.onload (lines 248-254) calling parseCSV on the
\* reader's result: setMetricsData and setError(null) at the end of parseCSV,
\* or the catch clause's setError.

\* a slip: the catch clause also drops the dataset stored before
TryParseDropsData(r, md) ==
    IF r.threw THEN [metricsData |-> NullData, error |-> ErrorMessage]
    ELSE [metricsData |-> r.parsed, error |-> Null]

\* try { parseCSV(...) } catch { setError(...) }, r being what parseCSV did and
\* md the dataset stored before
TryParse(r, md) ==
    IF r.threw THEN [metricsData |-> md, error |-> ErrorMessage]
    ELSE [metricsData |-> r.parsed, error |-> Null]

OnloadEffect(content, md) == TryParse(parseCSV(content), md)

RemoveAt(s, k) == SubSeq(s, 1, k - 1) \o SubSeq(s, k + 1, Len(s))

AppInit ==
    /\ metricsData = NullData
    /\ fileName = Null
    /\ error = Null
    /\ pending = <<>>

ParseIdle ==
    /\ csvText = <<>>
    /\ i = 0
    /\ parsed = EmptyParsed
    /\ ppc = "idle"

EngineIdle ==
    /\ call = NoCall
    /\ ret = NoReturn
    /\ epc = "idle"

\* handleFileUpload with a file chosen: the name is shown and a reader started
HandleFileUpload ==
    \E file \in Files :
        /\ Len(pending) < MaxPending
        /\ fileName' = file.name
        /\ pending' = Append(pending, file.content)
        /\ UNCHANGED <<metricsData, error, parseVars, engineVars>>

\* handleFileUpload with the dialog cancelled: event.target.files[0] is undefined
HandleFileUploadNoFile ==
    /\ UNCHANGED vars

\* reader.onload of one of the readers in flight (they finish in any order)
ReaderOnload ==
    \E k \in 1..Len(pending) :
        LET eff == OnloadEffect(pending[k], metricsData)
        IN  /\ metricsData' = eff.metricsData
            /\ error' = eff.error
            /\ pending' = RemoveAt(pending, k)
            /\ UNCHANGED <<fileName, parseVars, engineVars>>

\* loadDemoData; its button is rendered only while fileName is null (line 366)
LoadDemoData ==
    /\ fileName = Null
    /\ metricsData' = parseCSV(TextOf(dummyCSV)).parsed
    /\ error' = Null
    /\ fileName' = DemoFileName
    /\ UNCHANGED <<pending, parseVars, engineVars>>

Init == AppInit /\ ParseIdle /\ EngineIdle

Next ==
    \/ HandleFileUpload
    \/ HandleFileUploadNoFile
    \/ ReaderOnload
    \/ LoadDemoData

Spec == Init /\ [][Next]_vars

---------------------------------------------------------------------------
(* parseCSV followed row by row *)

\* lines a text to parse is made of
LinePool ==
    { <<",", "4", "2", ",", "4", "3", ",", "9", ",", "8", ",", "4", "6", ",", "4", "4", ",", "4", "1", ",", "4", "1", ",", ",", "4", ".", "3", "0", "9", ",", "4", ".", "4", "3", "3">>,
      <<"1", ",", "2", ",", "3", ",", "4", ",", "5", ",", "6">>,
      <<"0", ",", "1", ",", "2", ",", "3", ",", "4", ",", "5", ",", "6", ",", "7", ",", "8">>,
      <<",", "4", "2", ",", ",", "9", ",", "8", ",", "4", "6", ",", "4", "4", ",", "4", "1", ",", "4", "1", ",", ",", "4", ".", "3", ",", "4", ".", "4">>,
      <<"r", ",", "1", ",", "2", ",", "3", ",", "4", ",", "5", ",", "6", ",", "7", ",", "8", ",", "9">>,
      <<",", "x", ",", "-", "1", ".", "5", ",", "7", "u", "m", ",", " ", "8", ",", "1", "e", "2", ",", ".", "5", ",", "+", "3", ",", "I", "n", "f", "i", "n", "i", "t", "y", ",", ",", "a", "b", "c", ",", "2", ".", "\r">>,
      <<>> }

ParseTexts ==
    {AppendLines(Preamble, rows) : rows \in SeqsUpTo(LinePool, MaxRows)}
    \cup { <<"a", NL, ",", "1", ",", "2", ",", "3", ",", "4", ",", "5", ",", "6", ",", "7", ",", "8", ",", ",", "1", "0", ",", "1", "1">> }

\* csvText.split('\n')
Lines == Split(csvText, NL)

ParseInit ==
    /\ csvText \in ParseTexts
    /\ i = FirstDataLine
    /\ parsed = EmptyParsed
    /\ ppc = "loop"

\* one iteration of the loop of lines 272-293
ParseRowStep ==
    /\ ppc = "loop"
    /\ i < Len(Lines)
    /\ parsed' = ParseRow(parsed, Lines[i + 1])
    /\ i' = i + 1
    /\ UNCHANGED <<csvText, ppc, appVars, engineVars>>

\* the end of parseCSV: setMetricsData(parsed); setError(null)
ParseFinish ==
    /\ ppc = "loop"
    /\ i >= Len(Lines)
    /\ metricsData' = parsed
    /\ error' = Null
    /\ ppc' = "done"
    /\ UNCHANGED <<fileName, pending, csvText, i, parsed, engineVars>>

InitParse == AppInit /\ ParseInit /\ EngineIdle

NextParse == ParseRowStep \/ ParseFinish

SpecParse == InitParse /\ [][NextParse]_vars

---------------------------------------------------------------------------
(* The engine's specification *)

EngineInit ==
    /\ call \in EngineCalls
    /\ ret = NoReturn
    /\ epc = "ready"

InitEngine == AppInit /\ ParseIdle /\ EngineInit

NextEngine == CallCalculateStats \/ CallGetQuartiles \/ CallMetricCard

SpecEngine == InitEngine /\ [][NextEngine]_vars

---------------------------------------------------------------------------
(* Properties *)

StatsReturned == epc = "done" /\ call.fn = "calculateStats"
QuartilesReturned == epc = "done" /\ call.fn = "getQuartiles"
CardReturned == epc = "done" /\ call.fn = "MetricCard"

\* C1: when either sample has fewer than 2 elements, calculateStats returns
\* p = 1 and t = 0 and has called neither calculateMean nor calculateVariance
C1_DegenerateResult ==
    (StatsReturned /\ (Len(call.args[1]) < 2 \/ Len(call.args[2]) < 2))
        => /\ ret.returned
           /\ ret.value.p = "one"
           /\ ret.value.t = [sqrtOf |-> Zero]
           /\ ret.helperCalls = <<>>

\* C1, witness: an empty sample against one of three values
C1_Witness ==
    /\ StatsReturned
    /\ Len(call.args[1]) = 0
    /\ Len(call.args[2]) = 3
    /\ ret.value.p = "one"

\* C2: calculateStats(s, s) returns t = 0 and p = 1 for every sample s
C2_SelfTest ==
    (StatsReturned /\ call.args[1] = call.args[2])
        => /\ ret.value.t = [sqrtOf |-> Zero]
           /\ ret.value.p = "one"

\* the local df of the call made, for samples of 2 values or more
DfOfCall ==
    WelchDf(Len(call.args[1]), Len(call.args[2]),
            calculateVariance(call.args[1], calculateMean(call.args[1])),
            calculateVariance(call.args[2], calculateMean(call.args[2])))

\* C3: every result of calculateStats has t a real number >= 0 and p a real
\* number in (0,1], and the degrees of freedom it was computed with (the local
\* df: the record returned carries none) are a real number > 0
C3_ResultRanges ==
    StatsReturned
        => /\ IsFinite(ret.value.t.sqrtOf) /\ Sign(ret.value.t.sqrtOf) >= 0
           /\ ret.value.p \in {"one", "open01"}
           /\ (Len(call.args[1]) >= 2 /\ Len(call.args[2]) >= 2)
                 => (IsFinite(DfOfCall) /\ Sign(DfOfCall) > 0)

\* C4: when both groups are non-empty and one has fewer than 2 values,
\* MetricCard renders its card without raising an error
C4_SparseCardRenders ==
    (/\ CardReturned
     /\ Len(call.args[1]) > 0 /\ Len(call.args[2]) > 0
     /\ (Len(call.args[1]) < 2 \/ Len(call.args[2]) < 2))
        => ret.value.outcome = "card"

\* C5: for a non-empty sample, getQuartiles returns
\* min <= q1 <= median <= q3 <= max
C5_QuartilesOrdered ==
    (QuartilesReturned /\ Len(call.args[1]) >= 1)
        => /\ Le(ret.value.min, ret.value.q1)
           /\ Le(ret.value.q1, ret.value.median)
           /\ Le(ret.value.median, ret.value.q3)
           /\ Le(ret.value.q3, ret.value.max)

\* the number of fields a line splits into: one more than it has commas
FieldCount(line) == Cardinality({j \in 1..Len(line) : line[j] = ","}) + 1

\* a step of the loop of parseCSV, over line i (0-indexed) of the text
RowStep == ppc = "loop" /\ i' = i + 1

\* C6: a row of fewer than 10 fields leaves all ten samples as they were, and
\* the loop goes on
C6_ShortRowSkipped ==
    [][(RowStep /\ FieldCount(Lines[i + 1]) < 10)
          => (parsed' = parsed /\ ppc' = "loop")]_vars

\* C6, witness: a row of 9 fields, all numbers, was passed over after a row of
\* 12 was read
C6_Witness ==
    /\ ppc = "loop"
    /\ i = 7
    /\ Lines[6] = <<",", "4", "2", ",", "4", "3", ",", "9", ",", "8", ",", "4", "6", ",", "4", "4", ",", "4", "1", ",", "4", "1", ",", ",", "4", ".", "3", "0", "9", ",", "4", ".", "4", "3", "3">>
    /\ Lines[7] = <<"0", ",", "1", ",", "2", ",", "3", ",", "4", ",", "5", ",", "6", ",", "7", ",", "8">>
    /\ parsed["Ball Size"].group1 = <<Int2Num(42)>>
    /\ parsed["Ball Size"].group2 = <<Int2Num(43)>>

\* the columns of the metrics (the table of the positional schema)
ColumnsOf(m) ==
    CASE m = "Ball Size" -> <<1, 2>>
      [] m = "Ball Thickness" -> <<3, 4>>
      [] m = "Loop Height" -> <<5, 6>>
      [] m = "Edge Height" -> <<7, 8>>
      [] m = "BPT" -> <<10, 11>>

\* the sample of column c of metric m in the mapping acc
SampleOf(acc, m, c) == IF c = ColumnsOf(m)[1] THEN acc[m].group1 ELSE acc[m].group2

\* what a sample becomes when the field (0-indexed column c of row) is read
\* into it on its own
SampleAfter(sample, row, c) ==
    IF c + 1 > Len(row) \/ row[c + 1] = <<>> \/ IsNaN(parseFloat(row[c + 1]))
    THEN sample
    ELSE Append(sample, parseFloat(row[c + 1]))

\* C7: in a row of at least 10 fields every metric column is read on its own:
\* an empty, missing or unparseable field appends nothing to its sample and
\* every other field appends its value to its own sample; an empty column 2
\* leaves group2 of Ball Size as it was while column 1 is appended to group1
C7_ColumnsIndependent ==
    [][(RowStep /\ FieldCount(Lines[i + 1]) >= 10)
          => /\ \A m \in MetricNames : \A c \in {ColumnsOf(m)[1], ColumnsOf(m)[2]} :
                   SampleOf(parsed', m, c)
                       = SampleAfter(SampleOf(parsed, m, c), Split(Lines[i + 1], ","), c)
             /\ (Split(Lines[i + 1], ",")[3] = <<>>
                   /\ Split(Lines[i + 1], ",")[2] = <<"4", "2">>)
                  => /\ parsed'["Ball Size"].group2 = parsed["Ball Size"].group2
                     /\ parsed'["Ball Size"].group1
                          = Append(parsed["Ball Size"].group1, Int2Num(42))]_vars

\* C7, witness: the row with column 2 empty was read
C7_Witness ==
    /\ ppc = "loop"
    /\ i = 6
    /\ Lines[6] = <<",", "4", "2", ",", ",", "9", ",", "8", ",", "4", "6", ",", "4", "4", ",", "4", "1", ",", "4", "1", ",", ",", "4", ".", "3", ",", "4", ".", "4">>
    /\ parsed["Ball Size"].group1 = <<Int2Num(42)>>
    /\ parsed["Ball Size"].group2 = <<>>
    /\ parsed["Ball Thickness"].group2 = <<Int2Num(8)>>

\* the ten columns of the demo table (lines 301-322), read off row by row
DemoColumns ==
    [m \in MetricNames |->
      CASE m = "Ball Size" ->
        [group1 |-> <<
            Fin(42, 1), Fin(42, 1), Fin(43, 1), Fin(42, 1), Fin(43, 1), Fin(42, 1),
            Fin(41, 1), Fin(42, 1), Fin(42, 1), Fin(43, 1), Fin(43, 1), Fin(42, 1),
            Fin(42, 1), Fin(42, 1), Fin(41, 1), Fin(42, 1), Fin(43, 1), Fin(42, 1),
            Fin(42, 1), Fin(42, 1), Fin(42, 1), Fin(42, 1)
          >>,
         group2 |-> <<
            Fin(43, 1), Fin(43, 1), Fin(42, 1), Fin(42, 1), Fin(41, 1), Fin(41, 1),
            Fin(43, 1), Fin(41, 1), Fin(42, 1), Fin(43, 1), Fin(41, 1), Fin(42, 1),
            Fin(42, 1), Fin(42, 1), Fin(41, 1), Fin(41, 1), Fin(43, 1), Fin(43, 1),
            Fin(43, 1), Fin(41, 1), Fin(43, 1), Fin(43, 1)
          >>]
        [] m = "Ball Thickness" ->
        [group1 |-> <<
            Fin(9, 1), Fin(10, 1), Fin(10, 1), Fin(10, 1), Fin(9, 1), Fin(9, 1),
            Fin(9, 1), Fin(10, 1), Fin(9, 1), Fin(9, 1), Fin(9, 1), Fin(9, 1),
            Fin(10, 1), Fin(9, 1), Fin(9, 1), Fin(9, 1), Fin(10, 1), Fin(9, 1),
            Fin(9, 1), Fin(9, 1), Fin(9, 1), Fin(9, 1)
          >>,
         group2 |-> <<
            Fin(8, 1), Fin(9, 1), Fin(10, 1), Fin(9, 1), Fin(9, 1), Fin(10, 1),
            Fin(9, 1), Fin(9, 1), Fin(8, 1), Fin(8, 1), Fin(10, 1), Fin(9, 1),
            Fin(9, 1), Fin(10, 1), Fin(8, 1), Fin(8, 1), Fin(9, 1), Fin(10, 1),
            Fin(9, 1), Fin(8, 1), Fin(10, 1), Fin(10, 1)
          >>]
        [] m = "Loop Height" ->
        [group1 |-> <<
            Fin(46, 1), Fin(47, 1), Fin(45, 1), Fin(48, 1), Fin(47, 1), Fin(47, 1),
            Fin(52, 1), Fin(48, 1), Fin(45, 1), Fin(46, 1), Fin(52, 1), Fin(53, 1),
            Fin(47, 1), Fin(48, 1), Fin(46, 1), Fin(47, 1), Fin(51, 1), Fin(52, 1),
            Fin(53, 1), Fin(52, 1), Fin(50, 1), Fin(48, 1)
          >>,
         group2 |-> <<
            Fin(44, 1), Fin(46, 1), Fin(48, 1), Fin(49, 1), Fin(50, 1), Fin(46, 1),
            Fin(47, 1), Fin(48, 1), Fin(45, 1), Fin(45, 1), Fin(51, 1), Fin(50, 1),
            Fin(49, 1), Fin(48, 1), Fin(51, 1), Fin(50, 1), Fin(47, 1), Fin(46, 1),
            Fin(45, 1), Fin(46, 1), Fin(47, 1), Fin(47, 1)
          >>]
        [] m = "Edge Height" ->
        [group1 |-> <<
            Fin(41, 1), Fin(40, 1), Fin(39, 1), Fin(45, 1), Fin(45, 1), Fin(45, 1),
            Fin(43, 1), Fin(46, 1), Fin(45, 1), Fin(45, 1), Fin(43, 1), Fin(45, 1),
            Fin(42, 1), Fin(45, 1), Fin(45, 1), Fin(43, 1), Fin(43, 1), Fin(46, 1),
            Fin(44, 1), Fin(44, 1), Fin(44, 1), Fin(44, 1)
          >>,
         group2 |-> <<
            Fin(41, 1), Fin(40, 1), Fin(39, 1), Fin(44, 1), Fin(45, 1), Fin(44, 1),
            Fin(43, 1), Fin(44, 1), Fin(44, 1), Fin(42, 1), Fin(42, 1), Fin(42, 1),
            Fin(43, 1), Fin(44, 1), Fin(44, 1), Fin(42, 1), Fin(43, 1), Fin(42, 1),
            Fin(42, 1), Fin(44, 1), Fin(45, 1), Fin(45, 1)
          >>]
        [] m = "BPT" ->
        [group1 |-> <<
            Fin(4309, 1000), Fin(1067, 250), Fin(546, 125), Fin(2251, 500), Fin(2167, 500), Fin(4157, 1000),
            Fin(546, 125), Fin(4383, 1000), Fin(893, 200), Fin(2209, 500), Fin(114, 25), Fin(547, 125),
            Fin(1141, 250), Fin(4529, 1000), Fin(17, 4), Fin(2153, 500), Fin(4493, 1000), Fin(4163, 1000),
            Fin(2173, 500), Fin(4151, 1000), Fin(4537, 1000), Fin(2299, 500)
          >>,
         group2 |-> <<
            Fin(4433, 1000), Fin(573, 125), Fin(532, 125), Fin(561, 125), Fin(2287, 500), Fin(4527, 1000),
            Fin(2171, 500), Fin(4563, 1000), Fin(427, 100), Fin(1109, 250), Fin(4549, 1000), Fin(2191, 500),
            Fin(538, 125), Fin(2089, 500), Fin(4293, 1000), Fin(1069, 250), Fin(231, 50), Fin(461, 100),
            Fin(87, 20), Fin(572, 125), Fin(2079, 500), Fin(2203, 500)
          >>]
    ]

\* C8: parsing the demo dataset stores the five metrics, each with 22 values
\* in group1 and 22 in group2, in the order of the rows
C8_DemoParsed ==
    fileName = DemoFileName
        => /\ DOMAIN metricsData = MetricNames
           /\ \A m \in MetricNames :
                 /\ Len(metricsData[m].group1) = 22
                 /\ Len(metricsData[m].group2) = 22
                 /\ metricsData[m].group1 = DemoColumns[m].group1
                 /\ metricsData[m].group2 = DemoColumns[m].group2

\* C8, witness: the demo data was loaded
C8_Witness ==
    /\ fileName = DemoFileName
    /\ metricsData # NullData
    /\ Len(metricsData["BPT"].group2) = 22

\* the k-th smallest (k from 0) of a sample: the value with at most k values
\* below it and more than k values not above it
KthSmallest(data, k) ==
    CHOOSE v \in {data[j] : j \in 1..Len(data)} :
        /\ Cardinality({j \in 1..Len(data) : Lt(data[j], v)}) <= k
        /\ Cardinality({j \in 1..Len(data) : Le(data[j], v)}) > k

\* the quartile at pos = (n - 1) * num / 4 by linear interpolation
RefQuartile(data, num) ==
    LET fl == ((Len(data) - 1) * num) \div 4
        fr == Fin(((Len(data) - 1) * num) % 4, 4)
    IN  IF fl + 1 <= Len(data) - 1
        THEN Add(KthSmallest(data, fl),
                 Mul(fr, Sub(KthSmallest(data, fl + 1), KthSmallest(data, fl))))
        ELSE KthSmallest(data, fl)

RefSummary(data) ==
    IF data = <<>>
    THEN [min |-> Zero, q1 |-> Zero, median |-> Zero, q3 |-> Zero, max |-> Zero]
    ELSE [min |-> KthSmallest(data, 0),
          q1 |-> RefQuartile(data, 1),
          median |-> RefQuartile(data, 2),
          q3 |-> RefQuartile(data, 3),
          max |-> KthSmallest(data, Len(data) - 1)]

\* C9: getQuartiles returns the linear-interpolation summary of its sample
\* (all zero for the empty sample; 1, 1.75, 2.5, 3.25, 4 for [1,2,3,4]) and
\* leaves the sample in the order it was given
C9_QuartilesReference ==
    [][(epc = "ready" /\ call.fn = "getQuartiles" /\ epc' = "done")
          => /\ ret'.value = RefSummary(call.args[1])
             /\ call'.args = call.args
             /\ call.args[1] = <<Int2Num(1), Int2Num(2), Int2Num(3), Int2Num(4)>>
                  => ret'.value = [min |-> Int2Num(1), q1 |-> Fin(7, 4),
                                   median |-> Fin(5, 2), q3 |-> Fin(13, 4),
                                   max |-> Int2Num(4)]]_vars

\* C9, witness: an unsorted sample of the values 1..4 was summarised
C9_Witness ==
    /\ QuartilesReturned
    /\ call.args[1] = <<Int2Num(4), Int2Num(1), Int2Num(3), Int2Num(2)>>
    /\ ret.value.q1 = Fin(7, 4)
    /\ ret.value.q3 = Fin(13, 4)

\* a mapping with the five metrics, each with its two samples and its unit
CompleteMapping(md) ==
    /\ DOMAIN md = MetricNames
    /\ \A m \in MetricNames : DOMAIN md[m] = {"group1", "group2", "unit"}

\* C10: a parse that fails sets the error and leaves the stored dataset as it
\* was; a parse that succeeds stores the complete mapping and clears the error
C10_ParseOutcome ==
    [][/\ \A k \in 1..Len(pending) :
             pending' = RemoveAt(pending, k)
                => IF pending[k].isString
                   THEN /\ CompleteMapping(metricsData')
                        /\ metricsData' = parseCSV(pending[k]).parsed
                        /\ error' = Null
                   ELSE /\ error' = ErrorMessage
                        /\ metricsData' = metricsData
       /\ (fileName = Null /\ fileName' = DemoFileName)
             => (CompleteMapping(metricsData') /\ error' = Null)
       /\ metricsData' # NullData => CompleteMapping(metricsData')]_vars

\* C10, witness: a parse failed after a dataset had been stored
C10_Witness ==
    /\ error = ErrorMessage
    /\ metricsData # NullData
    /\ pending = <<>>

\* the loop followed row by row ends with the mapping parseCSV stores
LoopAgreesWithParseCSV ==
    ppc = "done" => metricsData = parseCSV(TextOf(csvText)).parsed

=============================================================================
